---- MODULE Spec2Model ----
(***************************************************************************)
(* Listing lifecycle (create / book / complete / delete) and the websocket *)
(* notification hub of main.py.                                            *)
(*                                                                         *)
(* The listings table lives in PostgreSQL and is shared by every server    *)
(* process; each handler opens its own connection and commits its own      *)
(* transaction.  The ConnectionManager is a module-level object, one per   *)
(* server process.  Handlers are coroutines: inside one process a handler  *)
(* keeps the event loop from its first statement to its first suspending   *)
(* await (the psycopg2 calls block, they do not yield); the only awaits    *)
(* that suspend are the send_text calls of broadcast and the accept /      *)
(* receive_text calls of the websocket endpoint.  Statements of handlers   *)
(* running in different processes interleave freely.                       *)
(*                                                                         *)
(* Bounds: MaxListings ids are ever allocated, MaxObs websockets ever      *)
(* connect, and each process is followed through one request handler at a  *)
(* time.  A text frame received on a websocket changes nothing and is not  *)
(* a step.                                                                 *)
(* A database that cannot be reached is followed in get_listings only;     *)
(* the other handlers are followed with the database up.                   *)
(***************************************************************************)
EXTENDS Naturals, Sequences, FiniteSets

MaxListings == 1
MaxObs == 2

Ids == 1..MaxListings
Obs == 1..MaxObs
\* Two server processes on one database; each is followed through one
\* request handler at a time (req[w]) and any number of websocket handlers.
Workers == {"p1", "p2"}
\* Owners of listings (Listing.user_id) and bookers (BookRequest.client_id).
Owners == {"bob"}
\* Listing.user_name and Listing.user_photo of the request body.
Names == {"Bob"}
Photos == {"bob.png"}
Clients == {"alice", "bob", "carol"}
NoUser == "NULL"
Statuses == {"AVAILABLE", "BOOKED", "COMPLETED"}
\* Owner metadata of a create request.
OwnerData == [id : Owners, name : Names, photo : Photos]

VARIABLES
    db,      \* the listings table: id -> [status, user_id, user_name,
             \* user_photo, client_id]
    nextId,  \* the next id uuid4 hands out (ids are never reused)
    active,  \* manager.active_connections of each process
    ws,      \* each websocket: "new", "open", "closed" (peer gone), "gone"
    req      \* the request handler in flight in each process

vars == <<db, nextId, active, ws, req>>

\* A request slot with no handler running in it.
IdleReq ==
    [kind |-> "none", id |-> 0, client |-> NoUser, pc |-> "idle",
     found |-> FALSE, nb |-> 0, idx |-> 0, start |-> {}, sent |-> {},
     failed |-> {}, rows |-> <<>>,
     resp |-> [code |-> 0, status |-> "", message |-> "", id |-> 0]]

Init ==
    /\ db = <<>>
    /\ nextId = 1
    /\ active = [w \in Workers |-> <<>>]
    /\ ws = [o \in Obs |-> "new"]
    /\ req = [w \in Workers |-> IdleReq]

\* JSON envelope returned by a handler (FastAPI default status code 200).
Envelope(status, message) ==
    [code |-> 200, status |-> status, message |-> message, id |-> 0]

\* The process's event loop is inside the synchronous part of a handler.
Busy(w) == req[w].pc \in {"update", "bcast"}

\* cursor.fetchone() after SELECT ... WHERE id = %s
Fetch(id) == IF id \in DOMAIN db THEN <<db[id]>> ELSE <<>>

\* Rows without the one with this id (DELETE ... WHERE id = %s).
Without(id) == [i \in (DOMAIN db) \ {id} |-> db[i]]

\* Listing.status of the request body; the field defaults to "AVAILABLE".
BodyStatus(s) == s

\* The sockets in the list.
Registered(conns) == {conns[i] : i \in 1..Len(conns)}

\* create_listing: uuid4 id, INSERT, commit, then the call of broadcast.
CreateListing(w, owner, s) ==
    /\ req[w].pc = "idle"
    /\ nextId <= MaxListings
    /\ db' = [i \in (DOMAIN db) \cup {nextId} |->
                IF i = nextId
                THEN [status |-> BodyStatus(s), user_id |-> owner.id,
                      user_name |-> owner.name, user_photo |-> owner.photo,
                      client_id |-> NoUser]
                ELSE db[i]]
    /\ nextId' = nextId + 1
    /\ req' = [req EXCEPT ![w] = [IdleReq EXCEPT !.kind = "create", !.id = nextId,
                                   !.pc = "bcast", !.nb = 1,
                                   !.start = Registered(active[w])]]
    /\ UNCHANGED <<active, ws>>

\* book_listing without its status check: any row found may be booked.
BookCheckNoStatus(result, client) ==
    IF result = <<>> THEN Envelope("error", "No encontrada")
    ELSE IF result[1].user_id = client
         THEN [code |-> 400, status |-> "error",
               message |-> "No puedes contratar tu propia fila", id |-> 0]
    ELSE Envelope("", "")

\* book_listing without its self-booking check.
BookCheckNoSelf(result, client) ==
    IF result = <<>> THEN Envelope("error", "No encontrada")
    ELSE IF result[1].status # "AVAILABLE" THEN Envelope("error", "Ya está reservado")
    ELSE Envelope("", "")

\* The checks of book_listing on the fetched row: the response of the early
\* return taken, or "go on" (status "") when the UPDATE is to run.
BookCheck(result, client) ==
    IF result = <<>> THEN Envelope("error", "No encontrada")
    ELSE IF result[1].status # "AVAILABLE" THEN Envelope("error", "Ya está reservado")
    ELSE IF result[1].user_id = client
         THEN [code |-> 400, status |-> "error",
               message |-> "No puedes contratar tu propia fila", id |-> 0]
    ELSE Envelope("", "")

\* book_listing with the UPDATE issued before the checks.
BookSelectWritesFirst(w, id, client) ==
    /\ req[w].pc = "idle"
    /\ LET result == Fetch(id)
           check == BookCheck(result, client)
       IN /\ req' = [req EXCEPT ![w] =
                       [IdleReq EXCEPT !.kind = "book", !.id = id, !.client = client,
                                       !.found = result # <<>>,
                                       !.pc = IF check.status = "" THEN "update" ELSE "done",
                                       !.resp = IF check.status = "" THEN IdleReq.resp
                                                ELSE check]]
          /\ db' = IF id \in DOMAIN db
                   THEN [db EXCEPT ![id].status = "BOOKED", ![id].client_id = client]
                   ELSE db
    /\ UNCHANGED <<nextId, active, ws>>

\* book_listing up to its UPDATE: connection, SELECT status, user_id and the checks.
BookSelect(w, id, client) ==
    /\ req[w].pc = "idle"
    /\ LET result == Fetch(id)
           check == BookCheck(result, client)
       IN req' = [req EXCEPT ![w] =
                    [IdleReq EXCEPT !.kind = "book", !.id = id, !.client = client,
                                    !.found = result # <<>>,
                                    !.pc = IF check.status = "" THEN "update" ELSE "done",
                                    !.resp = IF check.status = "" THEN IdleReq.resp ELSE check]]
    /\ UNCHANGED <<db, nextId, active, ws>>

\* book_listing calling broadcast with its UPDATE not yet committed.
BookedRowsUncommitted(id, client) == db

\* UPDATE listings SET status = 'BOOKED', client_id = %s WHERE id = %s; commit.
BookedRows(id, client) ==
    IF id \in DOMAIN db
    THEN [db EXCEPT ![id].status = "BOOKED", ![id].client_id = client]
    ELSE db

BookUpdate(w) ==
    /\ req[w].pc = "update"
    /\ req[w].kind = "book"
    /\ db' = BookedRows(req[w].id, req[w].client)
    /\ req' = [req EXCEPT ![w].pc = "bcast", ![w].nb = @ + 1,
                          ![w].start = Registered(active[w])]
    /\ UNCHANGED <<nextId, active, ws>>

\* complete_job without its existence check: an absent row passes.
CompleteCheckNoExistence(result) ==
    IF result # <<>> /\ result[1].status = "COMPLETED"
    THEN Envelope("error", "Ya pagado")
    ELSE Envelope("", "")

\* complete_job accepting only a booked listing.
CompleteCheckNeedsBooked(result) ==
    IF result = <<>> THEN Envelope("error", "No válido")
    ELSE IF result[1].status = "COMPLETED" THEN Envelope("error", "Ya pagado")
    ELSE IF result[1].status # "BOOKED" THEN Envelope("error", "No reservado")
    ELSE Envelope("", "")

\* The checks of complete_job on the fetched row.
CompleteCheck(result) ==
    IF result = <<>> THEN Envelope("error", "No válido")
    ELSE IF result[1].status = "COMPLETED" THEN Envelope("error", "Ya pagado")
    ELSE Envelope("", "")

\* complete_job up to its UPDATE: connection, SELECT status and the checks.
CompleteSelect(w, id) ==
    /\ req[w].pc = "idle"
    /\ LET result == Fetch(id)
           check == CompleteCheck(result)
       IN req' = [req EXCEPT ![w] =
                    [IdleReq EXCEPT !.kind = "complete", !.id = id, 
                                    !.found = result # <<>>,
                                    !.pc = IF check.status = "" THEN "update" ELSE "done",
                                    !.resp = IF check.status = "" THEN IdleReq.resp ELSE check]]
    /\ UNCHANGED <<db, nextId, active, ws>>

\* complete_job also clearing the booker: SET status = 'COMPLETED', client_id = NULL.
CompletedRowsClearsClient(id) ==
    IF id \in DOMAIN db
    THEN [db EXCEPT ![id].status = "COMPLETED", ![id].client_id = NoUser]
    ELSE db

\* UPDATE listings SET status = 'COMPLETED' WHERE id = %s; commit.
CompletedRows(id) ==
    IF id \in DOMAIN db THEN [db EXCEPT ![id].status = "COMPLETED"] ELSE db

CompleteUpdate(w) ==
    /\ req[w].pc = "update"
    /\ req[w].kind = "complete"
    /\ db' = CompletedRows(req[w].id)
    /\ req' = [req EXCEPT ![w].pc = "bcast", ![w].nb = @ + 1,
                          ![w].start = Registered(active[w])]
    /\ UNCHANGED <<nextId, active, ws>>

\* delete_listing: DELETE ... WHERE id = %s, commit, then the call of broadcast.
\* found records whether the statement met a row.
DeleteListing(w, id) ==
    /\ req[w].pc = "idle"
    /\ db' = Without(id)
    /\ req' = [req EXCEPT ![w] = [IdleReq EXCEPT !.kind = "delete", !.id = id, 
                                   !.found = (id \in DOMAIN db), !.pc = "bcast", !.nb = 1,
                                   !.start = Registered(active[w])]]
    /\ UNCHANGED <<nextId, active, ws>>

\* get_listings: connection, SELECT * FROM listings, the rows returned.  The
\* connection attempt raises when the store cannot be reached, and nothing
\* in the handler catches it.
ListResponse(reachable) ==
    IF reachable
    THEN [resp |-> [code |-> 200, status |-> "", message |-> "", id |-> 0], rows |-> db]
    ELSE [resp |-> [code |-> 500, status |-> "error",
                    message |-> "Internal Server Error", id |-> 0],
          rows |-> <<>>]

GetListings(w, reachable) ==
    /\ req[w].pc = "idle"
    /\ req' = [req EXCEPT ![w] = [IdleReq EXCEPT !.kind = "list", !.pc = "done",
                                   !.resp = ListResponse(reachable).resp,
                                   !.rows = ListResponse(reachable).rows]]
    /\ UNCHANGED <<db, nextId, active, ws>>

\* The return statement after "await manager.broadcast(...)".
SuccessResponse(kind, id) ==
    IF kind = "create" THEN [code |-> 200, status |-> "success", message |-> "", id |-> id]
    ELSE IF kind = "book" THEN Envelope("success", "Contratado")
    ELSE IF kind = "complete" THEN Envelope("success", "Validado")
    ELSE Envelope("success", "Eliminada")

\* The handler is inside broadcast: about to take the first element, or
\* suspended in a send_text.
CanRun(w) == req[w].pc \in {"bcast", "send"}

\* What a failed send_text leaves of the list: "except Exception: pass".
AfterFailedSend(conns, o) == conns

\* broadcast without its try/except: a send that raises ends the handler
\* with an internal server error.
BroadcastSendUncaught(w) ==
    /\ CanRun(w)
    /\ req[w].idx < Len(active[w])
    /\ LET o == active[w][req[w].idx + 1]
           delivered == ws[o] = "open"
       IN req' = [req EXCEPT ![w].idx = @ + 1,
                             ![w].pc = IF delivered THEN "send" ELSE "done",
                             ![w].sent = @ \cup {o},
                             ![w].failed = IF delivered THEN @ ELSE @ \cup {o},
                             ![w].resp = IF delivered THEN @
                                         ELSE [code |-> 500, status |-> "error",
                                               message |-> "Internal Server Error",
                                               id |-> 0]]
    /\ UNCHANGED <<db, nextId, active, ws>>

\* One turn of "for connection in self.active_connections": the list iterator
\* is at index idx; send_text delivers to an open socket and raises on one
\* whose peer is gone, and the exception is swallowed.
BroadcastSend(w) ==
    /\ CanRun(w)
    /\ req[w].idx < Len(active[w])
    /\ LET o == active[w][req[w].idx + 1]
           delivered == ws[o] = "open"
       IN /\ req' = [req EXCEPT ![w].idx = @ + 1, ![w].pc = "send",
                                 ![w].sent = @ \cup {o},
                                 ![w].failed = IF delivered THEN @ ELSE @ \cup {o}]
          /\ active' = IF delivered THEN active
                       ELSE [active EXCEPT ![w] = AfterFailedSend(@, o)]
    /\ UNCHANGED <<db, nextId, ws>>

\* The iterator is exhausted: broadcast returns and the handler answers.
BroadcastReturn(w) ==
    /\ CanRun(w)
    /\ req[w].idx >= Len(active[w])
    /\ req' = [req EXCEPT ![w].pc = "done",
                          ![w].resp = SuccessResponse(req[w].kind, req[w].id)]
    /\ UNCHANGED <<db, nextId, active, ws>>

\* The response has been sent; the slot is free for the next request.
Respond(w) ==
    /\ req[w].pc = "done"
    /\ req' = [req EXCEPT ![w] = IdleReq]
    /\ UNCHANGED <<db, nextId, active, ws>>

InList(conns, o) == \E i \in 1..Len(conns) : conns[i] = o

\* list.pop() in the place of list.remove(x): the list without its last element.
ListRemoveLast(conns, o) == SubSeq(conns, 1, Len(conns) - 1)

\* list.remove(x): the list without the first occurrence of x.
ListRemove(conns, o) ==
    LET first == CHOOSE i \in 1..Len(conns) :
                    conns[i] = o /\ \A j \in 1..(i - 1) : conns[j] # o
    IN [j \in 1..(Len(conns) - 1) |-> IF j < first THEN conns[j] ELSE conns[j + 1]]

\* websocket_endpoint up to the receive loop: accept, then append.
WsConnect(o, w) ==
    /\ ws[o] = "new"
    /\ ~Busy(w)
    /\ active' = [active EXCEPT ![w] = Append(@, o)]
    /\ ws' = [ws EXCEPT ![o] = "open"]
    /\ UNCHANGED <<db, nextId, req>>

\* The peer closes the socket or the network drops it.
ClientClose(o) ==
    /\ ws[o] = "open"
    /\ ws' = [ws EXCEPT ![o] = "closed"]
    /\ UNCHANGED <<db, nextId, active, req>>

\* ConnectionManager.disconnect: list.remove raises ValueError when the
\* socket is not in the list.
Disconnect(conns, o) ==
    IF InList(conns, o)
    THEN [conns |-> ListRemove(conns, o), raised |-> FALSE]
    ELSE [conns |-> conns, raised |-> TRUE]

\* receive_text raises WebSocketDisconnect; the handler calls disconnect.
WsDisconnect(o, w) ==
    /\ ws[o] = "closed"
    /\ InList(active[w], o)
    /\ ~Busy(w)
    /\ LET result == Disconnect(active[w], o)
       IN /\ active' = [active EXCEPT ![w] = result.conns]
          /\ ws' = [ws EXCEPT ![o] = IF result.raised THEN "error" ELSE "gone"]
    /\ UNCHANGED <<db, nextId, req>>

\* manager.disconnect(websocket) called by any code that holds the manager,
\* for any socket, registered or not; "error" records that the call raised.
CallDisconnect(o, w) ==
    /\ ~Busy(w)
    /\ ws[o] # "error"
    /\ LET result == Disconnect(active[w], o)
       IN /\ active' = [active EXCEPT ![w] = result.conns]
          /\ ws' = [ws EXCEPT ![o] = IF result.raised THEN "error" ELSE "gone"]
    /\ UNCHANGED <<db, nextId, req>>

\* Steps of the request handlers of process w.
Handler(w) ==
    \/ \E o \in OwnerData, s \in Statuses : CreateListing(w, o, s)
    \/ \E reachable \in BOOLEAN : GetListings(w, reachable)
    \/ \E id \in Ids, c \in Clients : BookSelect(w, id, c)
    \/ BookUpdate(w)
    \/ \E id \in Ids : CompleteSelect(w, id)
    \/ CompleteUpdate(w)
    \/ \E id \in Ids : DeleteListing(w, id)
    \/ BroadcastReturn(w)
    \/ Respond(w)

\* Steps of the websocket endpoint of process w and of its clients.
Hub(w) ==
    \/ BroadcastSend(w)
    \/ \E o \in Obs : WsConnect(o, w)
    \/ \E o \in Obs : ClientClose(o)
    \/ \E o \in Obs : WsDisconnect(o, w)

Next == \E w \in Workers : Handler(w) \/ Hub(w)

\* Every server process with its websocket clients, on one database.
Spec == Init /\ [][Next]_vars

NextSingle == Handler("p1") \/ Hub("p1")

\* A deployment of one server process.
SpecSingle == Init /\ [][NextSingle]_vars

NextStore == \E w \in Workers : Handler(w)

\* The server processes and the database while no websocket client connects.
SpecStore == Init /\ [][NextStore]_vars

NextManager ==
    \/ Handler("p1")
    \/ BroadcastSend("p1")
    \/ \E o \in Obs : WsConnect(o, "p1")
    \/ \E o \in Obs : ClientClose(o)
    \/ \E o \in Obs : CallDisconnect(o, "p1")

\* One server process whose ConnectionManager is unregistered from directly.
SpecManager == Init /\ [][NextManager]_vars

(***************************************************************************)
(* Properties                                                              *)
(***************************************************************************)

Rank(s) == IF s = "AVAILABLE" THEN 1 ELSE IF s = "BOOKED" THEN 2 ELSE 3

Done(w) == req[w].pc = "done"

\* The step in which the handler of w returns from broadcast and answers.
Returns(w) == req[w].pc \in {"bcast", "send"} /\ req'[w].pc = "done"

\* C1: no step moves the status of a stored listing backwards along
\* AVAILABLE -> BOOKED -> COMPLETED, and a COMPLETED listing keeps its status.
C1_StatusOnlyForward ==
    [][\A i \in (DOMAIN db) \cap (DOMAIN db') :
          /\ Rank(db'[i].status) >= Rank(db[i].status)
          /\ db[i].status = "COMPLETED" => db'[i].status = "COMPLETED"]_vars

\* C2: two Book requests on the same listing never both return success.
C2_OneBookSucceeds ==
    \A w1, w2 \in Workers :
        (/\ w1 # w2
         /\ Done(w1) /\ req[w1].kind = "book" /\ req[w1].resp.status = "success"
         /\ Done(w2) /\ req[w2].kind = "book" /\ req[w2].resp.status = "success")
        => req[w1].id # req[w2].id

\* The request met one of the failure conditions: it was answered with an
\* error, or it named an id the store did not hold (NotFound).
Fails(w) ==
    \/ req[w].resp.status = "error"
    \/ req[w].kind \in {"book", "complete", "delete"} /\ ~req[w].found

\* C3: a request that succeeds has called broadcast exactly once, and a
\* request that fails has called it zero times.
C3_BroadcastIffSuccess ==
    \A w \in Workers :
        (Done(w) /\ req[w].kind # "list") => req[w].nb = (IF Fails(w) THEN 0 ELSE 1)

\* The same count read off the handler's own answer: one broadcast, with at
\* most one send per observer, behind every success envelope and none behind
\* an error envelope.
BroadcastMatchesResponse ==
    \A w \in Workers :
        (Done(w) /\ req[w].kind # "list") =>
            /\ req[w].resp.status \in {"success", "error"}
            /\ req[w].resp.status = "success" =>
                  req[w].nb = 1 /\ Cardinality(req[w].sent) = req[w].idx
            /\ req[w].resp.status = "error" => req[w].nb = 0 /\ req[w].idx = 0

\* C4: a Delete whose id was not in the store answers with an error.
C4_DeleteAbsentNotFound ==
    \A w \in Workers :
        (Done(w) /\ req[w].kind = "delete" /\ ~req[w].found)
        => req[w].resp.status = "error"

\* C5: every row that enters the store enters it with status AVAILABLE.
C5_CreatedAvailable ==
    [][\A i \in (DOMAIN db') \ (DOMAIN db) : db'[i].status = "AVAILABLE"]_vars

\* C6: when broadcast returns, no observer whose send failed during it is
\* still in the active list.
C6_FailedSendUnregisters ==
    [][\A w \in Workers :
          Returns(w) => \A o \in req[w].failed : ~InList(active'[w], o)]_vars

\* C7: a failed send leaves the handler inside the broadcast loop, the loop
\* ends only when the iterator has run off the end of the list, and the
\* handler then answers with its success envelope.
C7_FailureIsolated ==
    [][\A w \in Workers :
          /\ (req[w].pc \in {"bcast", "send"} /\ req'[w].failed # req[w].failed)
                => req'[w].pc = "send"
          /\ Returns(w) =>
                /\ req[w].idx >= Len(active[w])
                /\ req'[w].resp = SuccessResponse(req[w].kind, req[w].id)]_vars

\* A broadcast has returned success after a send that failed and a later
\* send, to an observer further down the list, that was delivered.
C7_Witness ==
    \E w \in Workers :
        /\ Done(w) /\ req[w].resp.status = "success"
        /\ \E i, j \in 1..Len(active[w]) :
              /\ i < j
              /\ active[w][i] \in req[w].failed
              /\ active[w][j] \in req[w].sent \ req[w].failed

\* C8: no call of disconnect raises.
C8_UnregisterNeverRaises == \A o \in Obs : ws[o] # "error"

\* C9: the step in which the endpoint sees the disconnect takes the observer
\* out of the active list, it is in no list from then on, and no send goes to it.
C9_DisconnectUnregisters ==
    [][\A o \in Obs :
          /\ (ws'[o] = "gone") => \A w \in Workers : ~InList(active'[w], o)
          /\ (ws[o] = "gone") => \A w \in Workers : o \notin req'[w].sent \ req[w].sent]_vars

\* An observer has disconnected, and a handler is entering broadcast while
\* other observers are registered with its process.
C9_Witness ==
    \E o \in Obs, w \in Workers :
        /\ ws[o] = "gone"
        /\ req[w].pc = "bcast"
        /\ Len(active[w]) > 0

\* C10: a Book that starts on a stored listing on which a Book has already
\* been committed (its client_id is set) is answered "Ya está reservado" at
\* once and changes no row.
C10_SecondBookRejected ==
    [][\A w \in Workers :
          (/\ req[w].pc = "idle"
           /\ req'[w].kind = "book"
           /\ req'[w].id \in DOMAIN db
           /\ db[req'[w].id].client_id # NoUser)
          => /\ req'[w].pc = "done"
             /\ req'[w].resp = Envelope("error", "Ya está reservado")
             /\ db' = db]_vars

\* A second Book has been rejected on a listing that is still booked.
C10_Witness ==
    \E w \in Workers :
        /\ Done(w) /\ req[w].kind = "book"
        /\ req[w].resp.message = "Ya está reservado"
        /\ req[w].id \in DOMAIN db
        /\ db[req[w].id].status = "BOOKED"
        /\ db[req[w].id].client_id \notin {NoUser, req[w].client}

\* The step in which process w takes up a request of this kind on this id.
Starts(w, kind, id) ==
    req[w].pc = "idle" /\ req'[w].kind = kind /\ req'[w].id = id

\* C11: a Complete that starts on a stored listing while the success answer
\* of an earlier Complete on that listing stands is rejected with the
\* already-completed error and changes no row.
C11_SecondCompleteRejected ==
    [][\A w, v \in Workers, i \in Ids :
          (/\ v # w
           /\ Done(v) /\ req[v].kind = "complete" /\ req[v].id = i
           /\ req[v].resp.status = "success"
           /\ i \in DOMAIN db
           /\ Starts(w, "complete", i))
          => /\ req'[w].pc = "done"
             /\ req'[w].resp = Envelope("error", "Ya pagado")
             /\ db' = db]_vars

\* C12: an id that has left the store never returns to it; a List answered
\* from the store holds exactly the stored rows, so none with an absent id;
\* and a Book or Complete that starts on an absent id (deleted or never
\* allocated) is answered with the not-found error and changes no row.
C12_DeletedIsNotFound ==
    [][\A i \in Ids :
          i \notin DOMAIN db =>
              /\ (i < nextId => i \notin DOMAIN db')
              /\ \A w \in Workers :
                    /\ (req[w].pc = "idle" /\ req'[w].kind = "list")
                          => i \notin DOMAIN req'[w].rows
                    /\ Starts(w, "book", i)
                          => /\ req'[w].pc = "done"
                             /\ req'[w].resp = Envelope("error", "No encontrada")
                             /\ db' = db
                    /\ Starts(w, "complete", i)
                          => /\ req'[w].pc = "done"
                             /\ req'[w].resp = Envelope("error", "No válido")
                             /\ db' = db]_vars

\* A Complete on the id of a deleted listing has been answered "No válido".
C12_Witness ==
    \E w \in Workers :
        /\ Done(w) /\ req[w].kind = "complete"
        /\ req[w].resp.message = "No válido"
        /\ req[w].id < nextId
        /\ req[w].id \notin DOMAIN db

\* C13: no stored listing has a client_id equal to its user_id.
C13_NoSelfBooking ==
    \A i \in DOMAIN db : db[i].client_id # NoUser => db[i].client_id # db[i].user_id

\* A listing is booked while its owner's own Book has been refused.
C13_Witness ==
    \E w \in Workers :
        /\ Done(w) /\ req[w].kind = "book" /\ req[w].resp.code = 400
        /\ req[w].id \in DOMAIN db
        /\ db[req[w].id].client_id # NoUser

\* C14: the step that answers a Book or a Complete with an error changes no row.
C14_FailedRequestWritesNothing ==
    [][\A w \in Workers :
          (/\ req[w].pc # "done"
           /\ req'[w].pc = "done"
           /\ req'[w].kind \in {"book", "complete"}
           /\ req'[w].resp.status = "error")
          => db' = db]_vars

\* A Complete has been refused on a stored listing that a Book had booked.
C14_Witness ==
    \E w \in Workers :
        /\ Done(w) /\ req[w].kind = "complete" /\ req[w].resp.status = "error"
        /\ req[w].id \in DOMAIN db
        /\ db[req[w].id].status = "COMPLETED"
        /\ db[req[w].id].client_id # NoUser

\* The step in which the handler of w answers its request.
Answers(w) == req[w].pc # "done" /\ req'[w].pc = "done"

\* C15: List never fails its caller: it answers 200, and with an empty
\* collection when the store could not be reached.
C15_ListNeverFails ==
    \A w \in Workers :
        (Done(w) /\ req[w].kind = "list") => req[w].resp.code = 200

\* C16: the answers of the example: create answers with the new id and
\* status "AVAILABLE"; a Book that succeeds leaves the listing BOOKED; a Book
\* refused on a listing that is not AVAILABLE says "Ya está reservado"; a
\* Complete that succeeds leaves the listing COMPLETED; a Complete refused on
\* a stored listing says "Ya fue pagado".
C16_ExampleResponses ==
    [][\A w \in Workers :
          Answers(w) =>
            LET r == req'[w]
                ok == r.resp.status = "success"
                stored == r.id \in DOMAIN db'
            IN /\ r.kind = "create" =>
                     r.resp.id = r.id /\ r.resp.status = "AVAILABLE"
               /\ (r.kind = "book" /\ ok /\ stored) => db'[r.id].status = "BOOKED"
               /\ (r.kind = "book" /\ ~ok /\ r.found /\ r.resp.code = 200)
                     => r.resp.message = "Ya está reservado"
               /\ (r.kind = "complete" /\ ok /\ stored) => db'[r.id].status = "COMPLETED"
               /\ (r.kind = "complete" /\ ~ok /\ r.found)
                     => r.resp.message = "Ya fue pagado"]_vars

\* C17: a Complete that starts on a stored listing that is not COMPLETED
\* passes its checks, whether the listing is AVAILABLE or BOOKED; its UPDATE
\* sets the row, if still stored, to COMPLETED; and it answers "Validado".
C17_CompleteFromAnyOpenStatus ==
    [][\A w \in Workers :
          /\ \A i \in DOMAIN db :
                (Starts(w, "complete", i) /\ db[i].status # "COMPLETED")
                    => req'[w].pc = "update"
          /\ (req[w].kind = "complete" /\ req[w].pc = "update" /\ req'[w].pc # "update"
               /\ req[w].id \in DOMAIN db)
                => db'[req[w].id].status = "COMPLETED"
          /\ (req[w].kind = "complete" /\ Returns(w))
                => req'[w].resp = Envelope("success", "Validado")]_vars

\* A Complete has passed its checks on a listing that is still AVAILABLE.
C17_Witness ==
    \E w \in Workers :
        /\ req[w].kind = "complete" /\ req[w].pc = "update"
        /\ req[w].id \in DOMAIN db
        /\ db[req[w].id].status = "AVAILABLE"

\* What the request of w is to have committed, as the table shows it.
Effect(w) ==
    LET r == req[w]
    IN IF r.kind = "delete" THEN r.id \notin DOMAIN db
       ELSE /\ r.id \in DOMAIN db
            /\ r.kind = "book" =>
                  db[r.id].status = "BOOKED" /\ db[r.id].client_id = r.client
            /\ r.kind = "complete" => db[r.id].status = "COMPLETED"

\* C18: whenever a send of a request's broadcast is made, the table already
\* holds that request's mutation, so a List made on receiving the signal
\* returns it.
C18_CommitBeforeSignal ==
    [][\A w \in Workers :
          req'[w].idx = req[w].idx + 1 => (Effect(w) /\ db' = db)]_vars

\* A Book's signal has been sent to an observer.
C18_Witness ==
    \E w \in Workers :
        /\ req[w].kind = "book" /\ req[w].pc = "send" /\ req[w].sent # {}
        /\ Effect(w)

\* C19: when broadcast returns, every observer that was registered when it
\* began and is registered still has been sent the signal.
C19_NoObserverSkipped ==
    [][\A w \in Workers :
          Returns(w) =>
            \A o \in req[w].start : InList(active[w], o) => o \in req[w].sent]_vars

\* C20: no step changes the owner metadata of a stored listing; a new row
\* has no client_id; and client_id changes only in the UPDATE of a Book on
\* that listing, to that request's booker.
C20_OnlyBookSetsClient ==
    [][/\ \A i \in (DOMAIN db) \cap (DOMAIN db') :
             /\ db'[i].user_id = db[i].user_id
             /\ db'[i].user_name = db[i].user_name
             /\ db'[i].user_photo = db[i].user_photo
             /\ db'[i].client_id # db[i].client_id =>
                   \E w \in Workers :
                       /\ req[w].kind = "book" /\ req[w].id = i
                       /\ req[w].pc = "update" /\ req'[w].pc = "bcast"
                       /\ db'[i].client_id = req[w].client
       /\ \A i \in (DOMAIN db') \ (DOMAIN db) : db'[i].client_id = NoUser]_vars

\* A booked listing has been completed and still names its owner and booker.
C20_Witness ==
    \E w \in Workers :
        /\ Done(w) /\ req[w].kind = "complete" /\ req[w].resp.status = "success"
        /\ req[w].id \in DOMAIN db
        /\ db[req[w].id].status = "COMPLETED"
        /\ db[req[w].id].client_id \in Clients
        /\ db[req[w].id].user_name \in Names
====
